---------------------------- MODULE Spec2Model ----------------------------
(***************************************************************************)
(* A model of one call of extractColors (src/lib/colorExtractor.ts): the   *)
(* onload handler samples the pixel buffer, kMeans seeds and refines the   *)
(* centroids, and the formatting step builds the palette the promise is    *)
(* resolved with.                                                          *)
(*                                                                         *)
(* Numbers.  A centroid channel is a JavaScript double.  The model keeps   *)
(* a centroid as an exact fraction: the three channel numerators r, g, b   *)
(* over one common denominator n (a seed has n = 1, an updated centroid    *)
(* is the channel sums over the cluster's size, reduced).  Distances are   *)
(* compared by cross-multiplication, so the model computes with exact      *)
(* reals where the code rounds to 53 bits.  Cluster indices are 0-based    *)
(* as in the code; TLA+ sequences are 1-based, hence centroids[c + 1].     *)
(*                                                                         *)
(* Two further specifications share the variables.  SpecDownscale follows  *)
(* the onload handler from the size of the image to getImageData, with     *)
(* the double arithmetic of the downscale step computed digit by digit.    *)
(* SpecHome follows the Home page: its four states, the uploads whose      *)
(* FileReader or extractColors callbacks are still to run, and the reset   *)
(* button.                                                                 *)
(***************************************************************************)
EXTENDS Integers, Sequences, FiniteSets, TLC

\* ------------------------------------------------------------- bounds

\* The largest number of pixels of the buffer handed to the sampler.
MaxPixels == 3

\* The largest requested colour count explored below the default.
MaxK == 2

\* kMeans takes maxIterations as a parameter (default 100, the only value
\* extractColors passes).  Caps 1..MaxIterCap are explored, so that the
\* exhausted-cap exit is taken with a handful of samples.
MaxIterCap == 2

\* ---------------------------------------------------------- constants

\* extractColors(imageData, 6): the colour count the page requests.
DefaultColorCount == 6

\* if (a < 128) continue;
AlphaThreshold == 128

\* The RGB values of the opaque pixels explored.  The channel values are
\* small so that the seeding weights stay small; they are chosen so that a
\* sample can be exactly as far from one centroid as from another (<<1,0,0>>
\* from <<0,0,0>> and from the mean of itself and <<1,2,0>>) and so that one
\* assignment step need not settle the partition (<<0,0,0>>, <<1,0,0>>,
\* <<2,2,0>>).
Colors == { <<0, 0, 0>>, <<1, 0, 0>>, <<1, 2, 0>>, <<2, 2, 0>> }

\* The RGB values of the transparent pixels explored: the sampler drops
\* them, so their colour reaches nothing downstream.
TransparentColors == { <<1, 0, 0>> }

\* One alpha value on each side of the threshold.
OpaquePixels ==
    { [r |-> c[1], g |-> c[2], b |-> c[3], a |-> AlphaThreshold] : c \in Colors }

TransparentPixels ==
    { [r |-> c[1], g |-> c[2], b |-> c[3], a |-> AlphaThreshold - 1] : c \in TransparentColors }

PixelValues == OpaquePixels \cup TransparentPixels

\* Requested colour counts: negative, zero, small, and the default.
ColorCounts == ((0 - 1) .. MaxK) \cup { DefaultColorCount }

\* ------------------------------------------------------------- state

VARIABLES
    data,           \* imageData.data, one record per RGBA pixel
    colorCount,     \* the colorCount argument of extractColors
    maxIterations,  \* the maxIterations parameter of kMeans
    pc,             \* where the call is
    points,         \* the Point[] built by the sampler: r, g, b, cluster, distance
    k,              \* Math.min(colorCount, points.length)
    centroids,      \* kMeans' centroids
    iteration,      \* kMeans' loop counter
    randomValue,    \* twice Math.random() * totalDistance of the last seeding step
    selectedIndex,  \* the index the last seeding step selected (0-based)
    kMeansCalls,    \* how many times kMeans was invoked
    stop,           \* how kMeans left its loop
    status,         \* the promise: "pending", "resolved" or "rejected"
    error,          \* what the promise was rejected with
    colors,         \* the value the promise was resolved with
    assignSteps,    \* how many assignment steps kMeans has run
    imgWidth,       \* img.width
    imgHeight,      \* img.height
    width,          \* the local width of the onload handler
    height,         \* the local height of the onload handler
    image,          \* Home's image state
    pageColors,     \* Home's colors state
    isProcessing,   \* Home's isProcessing state
    pageError,      \* Home's error state
    uploads         \* the uploads whose callbacks have not all run yet

\* The variables of one call of extractColors.
callVars == << data, colorCount, maxIterations, pc, points, k, centroids,
              iteration, randomValue, selectedIndex, kMeansCalls, stop,
              status, error, colors, assignSteps >>

\* The image's size and the size of the canvas it is drawn on.
scaleVars == << imgWidth, imgHeight, width, height >>

\* The state of the Home page.
homeVars == << image, pageColors, isProcessing, pageError, uploads >>

vars == << callVars, scaleVars, homeVars >>

\* ----------------------------------------------------------- helpers

SeqSum(s) ==
    LET RECURSIVE go(_)
        go(i) == IF i > Len(s) THEN 0 ELSE s[i] + go(i + 1)
    IN go(1)

RECURSIVE Gcd(_, _)
Gcd(x, y) == IF y = 0 THEN x ELSE Gcd(y, x % y)

\* A centroid pushed by the seeding: the sample's own channel values.
Seed(p) == [r |-> p.r, g |-> p.g, b |-> p.b, n |-> 1]

\* The fraction (r/n, g/n, b/n) in lowest terms.
Reduce(c) ==
    LET d == Gcd(Gcd(Gcd(c.n, c.r), c.g), c.b)
    IN [r |-> c.r \div d, g |-> c.g \div d, b |-> c.b \div d, n |-> c.n \div d]

\* Math.pow(point.r - c.r, 2) + ... as the fraction num / den.
Distance(p, c) ==
    [num |-> (p.r * c.n - c.r) * (p.r * c.n - c.r)
           + (p.g * c.n - c.g) * (p.g * c.n - c.g)
           + (p.b * c.n - c.b) * (p.b * c.n - c.b),
     den |-> c.n * c.n]

\* The comparison letting the later centroid win a tie (<=).
LessOrEqual(x, y) == x.num * y.den <= y.num * x.den

\* distance < minDistance
Less(x, y) == x.num * y.den < y.num * x.den

Min(x, y) == IF x < y THEN x ELSE y

\* --------------------------------------------------------- JavaScript values

\* The values an element of clusterCounts, a count or a percentage can take:
\* a number (the fraction num / den), NaN, or undefined.
Num(x) == [t |-> "number", num |-> x, den |-> 1]

NaN == [t |-> "NaN", num |-> 0, den |-> 1]

Undefined == [t |-> "undefined", num |-> 0, den |-> 1]

\* x++ on an array element: a number is incremented, a hole (undefined)
\* becomes NaN and NaN stays NaN.
Increment(x) == IF x.t = "number" THEN Num(x.num + 1) ELSE NaN

\* x > 0: false for NaN and undefined.
Positive(x) == x.t = "number" /\ x.num > 0

\* (count / totalPixels) * 100
Percentage(count, totalPixels) ==
    IF count.t = "number"
    THEN [t |-> "number", num |-> count.num * 100, den |-> totalPixels]
    ELSE NaN

\* ------------------------------------------------------------ utils.ts

HexDigits == << "0", "1", "2", "3", "4", "5", "6", "7",
                "8", "9", "A", "B", "C", "D", "E", "F" >>

\* Math.round of the non-negative fraction x / n: halves round up.
Round(x, n) == (2 * x + n) \div (2 * n)

\* toHex: Math.round(value).toString(16), padded to two digits; the result
\* of rgbToHex is upper-cased.
ToHex(x, n) ==
    LET v == Round(x, n)
    IN IF v < 16
       THEN "0" \o HexDigits[v + 1]
       ELSE HexDigits[(v \div 16) + 1] \o HexDigits[(v % 16) + 1]

rgbToHex(c) == "#" \o ToHex(c.r, c.n) \o ToHex(c.g, c.n) \o ToHex(c.b, c.n)

\* ------------------------------------------------------------- sampler

\* The alpha test one off: a pixel of alpha 127 passes.
EligibleFrom127(p) == ~(p.a < AlphaThreshold - 1)

\* if (a < 128) continue;
Eligible(p) == ~(p.a < AlphaThreshold)

\* A point whose green and blue channels are exchanged.
NewPointSwapped(p) ==
    [r |-> p.r, g |-> p.b, b |-> p.g, cluster |-> 0, distance |-> [num |-> 0, den |-> 1]]

\* points.push({ r, g, b, cluster: 0, distance: 0 })
NewPoint(p) ==
    [r |-> p.r, g |-> p.g, b |-> p.b, cluster |-> 0, distance |-> [num |-> 0, den |-> 1]]

\* The loop over data: one point per pixel that passes the alpha test, in
\* buffer order.
Sample(d) ==
    LET RECURSIVE go(_)
        go(i) == IF i > Len(d) THEN << >>
                 ELSE IF Eligible(d[i]) THEN << NewPoint(d[i]) >> \o go(i + 1)
                 ELSE go(i + 1)
    IN go(1)

\* resolve([{ color: '#FFFFFF', count: 1, percentage: 100 }])
Fallback == << [color |-> "#FFFFFF", count |-> Num(1), percentage |-> Num(100)] >>

\* const k = Math.min(colorCount, points.length);
EffectiveK(cc, pts) == Min(cc, Len(pts))

\* -------------------------------------------------------------- kMeans

\* The inner loop of the seeding: the least squared distance from p to a
\* centroid chosen so far.  Seeds are samples, so the distance is an integer.
MinDistance(p, cs) ==
    LET RECURSIVE go(_, _)
        go(i, best) ==
            IF i > Len(cs) THEN best
            ELSE LET d == Distance(p, cs[i]).num \div Distance(p, cs[i]).den
                 IN go(i + 1, IF best < 0 \/ d < best THEN d ELSE best)
    IN go(1, 0 - 1)

\* const distances = points.map(...)
Distances(pts, cs) == [j \in 1 .. Len(pts) |-> MinDistance(pts[j], cs)]

\* The values Math.random() * totalDistance can take, doubled.  The walk
\* only compares the value with the cumulative weights, so one value stands
\* for each outcome: every cumulative weight below the total (0 included)
\* and a point strictly between each of them and the next.  With
\* totalDistance = 0 the product is 0.
Draws(distances) ==
    LET totalDistance == SeqSum(distances)
        below == { c \in { SeqSum(SubSeq(distances, 1, j)) : j \in 0 .. Len(distances) } :
                       c < totalDistance }
    IN IF totalDistance = 0 THEN { 0 }
       ELSE { 2 * c : c \in below } \cup { 2 * c + 1 : c \in below }

\* The walk over distances: randomValue -= distances[j]; the first j that
\* brings it to 0 or below is selected, and selectedIndex stays 0 when no j
\* does.  rv2 is twice the random value; the result is 0-based.
Reached(rv2) == rv2 <= 0

Walk(distances, rv2) ==
    LET RECURSIVE go(_, _)
        go(j, rest) ==
            IF j > Len(distances) THEN 0
            ELSE IF Reached(rest - 2 * distances[j]) THEN j - 1
            ELSE go(j + 1, rest - 2 * distances[j])
    IN go(1, rv2)

\* The seeding loop running one pass too many (i <= k).
MoreSeedsInclusive(cs, kk, pts) == Len(cs) <= kk /\ Len(cs) < Len(pts)

\* The loop condition of the seeding, i being the number of centroids.
MoreSeeds(cs, kk, pts) == Len(cs) < kk /\ Len(cs) < Len(pts)

\* A loop test that lets one more iteration through.
IteratingInclusive(it, cap) == it <= cap

\* The test of the iteration loop: iteration < maxIterations.
Iterating(it, cap) == it < cap

\* The assignment step for one point: the index (0-based) of the nearest
\* centroid, the first one winning a tie, and the distance to it.
Nearest(p, cs) ==
    LET RECURSIVE go(_, _, _)
        go(i, newCluster, minDistance) ==
            IF i > Len(cs) THEN [cluster |-> newCluster, distance |-> minDistance]
            ELSE IF minDistance.den = 0 \/ Less(Distance(p, cs[i]), minDistance)
                 THEN go(i + 1, i - 1, Distance(p, cs[i]))
                 ELSE go(i + 1, newCluster, minDistance)
    IN go(1, 0, [num |-> 1, den |-> 0])

\* A distance as stored in point.distance: the fraction in lowest terms
\* (Infinity, kept as 1/0, when there is no centroid).
Stored(d) ==
    LET g == Gcd(d.num, d.den)
    IN IF g = 0 THEN d ELSE [num |-> d.num \div g, den |-> d.den \div g]

Assigned(pts, cs) ==
    [j \in 1 .. Len(pts) |->
        [pts[j] EXCEPT !.cluster = Nearest(pts[j], cs).cluster,
                       !.distance = Stored(Nearest(pts[j], cs).distance)]]

\* hasChanged: some point's cluster differs from the one it had.
HasChanged(pts, cs) ==
    \E j \in 1 .. Len(pts) : pts[j].cluster # Nearest(pts[j], cs).cluster

\* The update step: the channel sums and the size of each cluster; a
\* centroid whose cluster is empty keeps its value.
Members(pts, i) == { j \in 1 .. Len(pts) : pts[j].cluster = i }

ChannelSum(pts, i, ch) ==
    LET RECURSIVE go(_)
        go(j) == IF j > Len(pts) THEN 0
                 ELSE (IF pts[j].cluster = i THEN pts[j][ch] ELSE 0) + go(j + 1)
    IN go(1)

Mean(pts, i) ==
    Reduce([r |-> ChannelSum(pts, i, "r"), g |-> ChannelSum(pts, i, "g"),
            b |-> ChannelSum(pts, i, "b"), n |-> Cardinality(Members(pts, i))])

Updated(pts, cs) ==
    [i \in 1 .. Len(cs) |->
        IF Cardinality(Members(pts, i - 1)) > 0 THEN Mean(pts, i - 1) ELSE cs[i]]

\* ---------------------------------------------------------- formatting

\* new Array(k).fill(0) followed by clusterCounts[point.cluster]++ for every
\* point.  The array is a function on its filled indices; an index outside
\* it reads undefined.
At(arr, index) == IF index \in DOMAIN arr THEN arr[index] ELSE Undefined

ClusterCounts(pts, kk) ==
    LET RECURSIVE go(_, _)
        go(j, arr) ==
            IF j > Len(pts) THEN arr
            ELSE LET c == pts[j].cluster
                 IN go(j + 1, IF c \in DOMAIN arr
                              THEN [arr EXCEPT ![c] = Increment(arr[c])]
                              ELSE (c :> Increment(Undefined)) @@ arr)
    IN go(1, [i \in 0 .. (kk - 1) |-> Num(0)])

\* centroids.map((centroid, index) => ({ color, count, percentage }))
Entries(cs, clusterCounts, totalPixels) ==
    [i \in 1 .. Len(cs) |->
        [color |-> rgbToHex(cs[i]),
         count |-> At(clusterCounts, i - 1),
         percentage |-> Percentage(At(clusterCounts, i - 1), totalPixels)]]

\* The filter as count >= 0.
KeepZero(e) == e.count.t = "number" /\ e.count.num >= 0

\* .filter(color => color.count > 0)
Keep(e) == Positive(e.count)

\* The palette with the filter left out.
FilterNone(es) == es

Filter(es) == SelectSeq(es, Keep)

\* The comparator the other way round (a.count - b.count).
BeforeAscending(a, b) == a.count.num - b.count.num <= 0

\* .sort((a, b) => b.count - a.count): a stable sort, so x goes behind every
\* entry whose count is not smaller.
Before(a, b) == b.count.num - a.count.num <= 0

Insert(sorted, x) ==
    LET n == Cardinality({ i \in 1 .. Len(sorted) : Before(sorted[i], x) })
    IN SubSeq(sorted, 1, n) \o << x >> \o SubSeq(sorted, n + 1, Len(sorted))

Sort(es) ==
    LET RECURSIVE go(_, _)
        go(i, sorted) == IF i > Len(es) THEN sorted ELSE go(i + 1, Insert(sorted, es[i]))
    IN go(1, << >>)

Palette(pts, cs, kk) == Sort(Filter(Entries(cs, ClusterCounts(pts, kk), Len(pts))))

\* ------------------------------------------------------------ behaviour

Images == UNION { [1 .. n -> PixelValues] : n \in 1 .. MaxPixels }

\* The state of a call before the image has loaded.
Start ==
    /\ pc = "loading"
    /\ points = << >>
    /\ k = 0
    /\ centroids = << >>
    /\ iteration = 0
    /\ randomValue = 0
    /\ selectedIndex = 0
    /\ kMeansCalls = 0
    /\ stop = "none"
    /\ status = "pending"
    /\ error = "none"
    /\ colors = << >>
    /\ assignSteps = 0

\* The value of a state that holds null.
Null == "null"

\* The buffer is the one of an image of a single row that needs no
\* downscaling.
OneRow ==
    /\ imgWidth = Len(data)
    /\ imgHeight = 1
    /\ width = imgWidth
    /\ height = imgHeight

\* The Home page as mounted: no image, no colors, nothing in progress.
PageIdle ==
    /\ image = Null
    /\ pageColors = << >>
    /\ isProcessing = FALSE
    /\ pageError = Null
    /\ uploads = << >>

Init ==
    /\ data \in Images
    /\ colorCount \in ColorCounts
    /\ maxIterations \in 1 .. MaxIterCap
    /\ Start
    /\ OneRow
    /\ PageIdle

\* img.onerror: the image could not be decoded.
OnError ==
    /\ pc = "loading"
    /\ pc' = "done"
    /\ status' = "rejected"
    /\ error' = "load"
    /\ UNCHANGED << data, colorCount, maxIterations, points, k, centroids, iteration,
                    randomValue, selectedIndex, kMeansCalls, stop, colors >>
    /\ UNCHANGED assignSteps
    /\ UNCHANGED << scaleVars, homeVars >>

\* img.onload up to the call of kMeans: the 2d context may be missing; the
\* sampler runs; without a point the fallback is resolved.
OnLoad ==
    /\ pc = "loading"
    /\ \E ctx \in BOOLEAN :
        IF ~ctx
        THEN /\ pc' = "done"
             /\ status' = "rejected"
             /\ error' = "context"
             /\ UNCHANGED << points, k, colors >>
        ELSE /\ points' = Sample(data)
             /\ error' = error
             /\ IF Len(points') = 0
                THEN /\ colors' = Fallback
                     /\ status' = "resolved"
                     /\ pc' = "done"
                     /\ k' = k
                ELSE /\ k' = EffectiveK(colorCount, points')
                     /\ pc' = "kMeans"
                     /\ UNCHANGED << colors, status >>
    /\ UNCHANGED << data, colorCount, maxIterations, centroids, iteration,
                    randomValue, selectedIndex, kMeansCalls, stop >>
    /\ UNCHANGED assignSteps
    /\ UNCHANGED << scaleVars, homeVars >>

\* kMeans is entered and the first centroid is a sample picked at random:
\* firstIndex = Math.floor(Math.random() * points.length).
SeedFirst ==
    /\ pc = "kMeans"
    /\ Len(points) > 0
    /\ \E firstIndex \in 0 .. (Len(points) - 1) :
        centroids' = << Seed(points[firstIndex + 1]) >>
    /\ kMeansCalls' = kMeansCalls + 1
    /\ pc' = IF MoreSeeds(centroids', k, points) THEN "seed" ELSE "assign"
    /\ UNCHANGED << data, colorCount, maxIterations, points, k, iteration,
                    randomValue, selectedIndex, stop, status, error, colors >>
    /\ UNCHANGED assignSteps
    /\ UNCHANGED << scaleVars, homeVars >>

\* One pass of the seeding loop: the weights, the draw, the walk, the push.
SeedNext ==
    /\ pc = "seed"
    /\ MoreSeeds(centroids, k, points)
    /\ LET distances == Distances(points, centroids)
       IN \E rv2 \in Draws(distances) :
            /\ randomValue' = rv2
            /\ selectedIndex' = Walk(distances, rv2)
            /\ centroids' = Append(centroids, Seed(points[selectedIndex' + 1]))
    /\ pc' = IF MoreSeeds(centroids', k, points) THEN "seed" ELSE "assign"
    /\ UNCHANGED << data, colorCount, maxIterations, points, k, iteration,
                    kMeansCalls, stop, status, error, colors >>
    /\ UNCHANGED assignSteps
    /\ UNCHANGED << scaleVars, homeVars >>

\* The assignment step of one iteration and the convergence test.  The
\* locals of the seeding are out of scope from here on.
Assign ==
    /\ pc = "assign"
    /\ Iterating(iteration, maxIterations)
    /\ points' = Assigned(points, centroids)
    /\ IF HasChanged(points, centroids)
       THEN pc' = "update" /\ stop' = stop
       ELSE pc' = "format" /\ stop' = "converged"
    /\ randomValue' = 0
    /\ selectedIndex' = 0
    /\ UNCHANGED << data, colorCount, maxIterations, k, centroids, iteration,
                    kMeansCalls, status, error, colors >>
    /\ assignSteps' = assignSteps + 1
    /\ UNCHANGED << scaleVars, homeVars >>

\* The update step of the iteration, then iteration++ and the loop test.
Update ==
    /\ pc = "update"
    /\ centroids' = Updated(points, centroids)
    /\ iteration' = iteration + 1
    /\ IF Iterating(iteration', maxIterations)
       THEN pc' = "assign" /\ stop' = stop
       ELSE pc' = "format" /\ stop' = "cap"
    /\ UNCHANGED << data, colorCount, maxIterations, points, k,
                    randomValue, selectedIndex, kMeansCalls, status, error, colors >>
    /\ UNCHANGED assignSteps
    /\ UNCHANGED << scaleVars, homeVars >>

\* kMeans has returned: new Array(k) throws a RangeError for a negative k,
\* which the catch turns into a rejection; otherwise the palette is built
\* and resolved.
Format ==
    /\ pc = "format"
    /\ pc' = "done"
    /\ IF k < 0
       THEN /\ status' = "rejected"
            /\ error' = "RangeError"
            /\ colors' = colors
       ELSE /\ status' = "resolved"
            /\ error' = error
            /\ colors' = Palette(points, centroids, k)
    /\ UNCHANGED << data, colorCount, maxIterations, points, k, centroids, iteration,
                    randomValue, selectedIndex, kMeansCalls, stop >>
    /\ UNCHANGED assignSteps
    /\ UNCHANGED << scaleVars, homeVars >>

Next == OnError \/ OnLoad \/ SeedFirst \/ SeedNext \/ Assign \/ Update \/ Format

Spec == Init /\ [][Next]_vars

\* ------------------------------------------------- terms of the claims

\* The pixels of the buffer that count as samples, read off the buffer.
EligiblePixels == { i \in 1 .. Len(data) : data[i].a >= 128 }

EligibleCount == Cardinality(EligiblePixels)

DistinctColors == { << data[i].r, data[i].g, data[i].b >> : i \in EligiblePixels }

\* The promise was resolved with what the clustering produced.
Clustered == status = "resolved" /\ EligibleCount >= 1

\* kMeans has returned (to the formatting step or beyond).
Returned == pc \in { "format", "done" } /\ kMeansCalls = 1

CountSum ==
    LET RECURSIVE go(_)
        go(i) == IF i > Len(colors) THEN 0 ELSE colors[i].count.num + go(i + 1)
    IN go(1)

AllNumbers == \A i \in 1 .. Len(colors) : colors[i].count.t = "number"

\* C1: with at least one eligible sample and K >= 1, the counts of the
\* returned entries add up to the number of eligible samples.
C1_CountsSumToSamples ==
    (Clustered /\ colorCount >= 1) => (AllNumbers /\ CountSum = EligibleCount)

C1_Witness ==
    /\ Clustered /\ colorCount >= 1
    /\ stop = "cap"
    /\ Len(colors) >= 2
    /\ EligibleCount >= 3

\* C2 as stated: for every sample set and K >= 1 the number of entries is at
\* most K, at most the number of distinct eligible colours, and at least 1
\* when a sample is eligible.
C2_Original ==
    (status = "resolved" /\ colorCount >= 1) =>
        /\ Len(colors) <= colorCount
        /\ Len(colors) <= Cardinality(DistinctColors)
        /\ (EligibleCount >= 1 => Len(colors) >= 1)

\* C2 as amended: the three bounds hold whenever at least one sample is
\* eligible; without one the single fallback entry is returned.
C2_EntryCountBounds ==
    /\ (Clustered /\ colorCount >= 1) =>
          /\ Len(colors) <= colorCount
          /\ Len(colors) <= Cardinality(DistinctColors)
          /\ Len(colors) >= 1
    /\ (status = "resolved" /\ EligibleCount = 0) => Len(colors) = 1

C2_Witness ==
    /\ Clustered
    /\ colorCount >= 2
    /\ Cardinality(DistinctColors) < EligibleCount
    /\ Len(colors) = Cardinality(DistinctColors)
    /\ Len(colors) < Len(centroids)

\* C3: with K <= 0 and an eligible sample the promise is never resolved.
C3_FailFast ==
    (colorCount <= 0 /\ EligibleCount >= 1) => status # "resolved"

\* C5: with no eligible sample the promise is resolved with the single white
\* entry and kMeans is never invoked, unless the image or the 2d context
\* could not be obtained in the first place.
C5_FallbackWithoutClustering ==
    (pc = "done" /\ EligibleCount = 0 /\ error \notin { "load", "context" }) =>
        /\ status = "resolved"
        /\ colors = << [color |-> "#FFFFFF",
                        count |-> [t |-> "number", num |-> 1, den |-> 1],
                        percentage |-> [t |-> "number", num |-> 100, den |-> 1]] >>
        /\ kMeansCalls = 0

C5_Witness ==
    /\ pc = "done" /\ EligibleCount = 0 /\ status = "resolved"
    /\ Len(data) >= 2
    /\ colorCount <= 0

\* C6: every returned entry has a positive integer count and a percentage in
\* [0, 100], and the entries are as many as the clusters that hold a sample.
C6_PositiveCounts ==
    /\ status = "resolved" =>
          \A i \in 1 .. Len(colors) :
              /\ colors[i].count.t = "number"
              /\ colors[i].count.den = 1
              /\ colors[i].count.num > 0
              /\ colors[i].percentage.t = "number"
              /\ colors[i].percentage.num >= 0
              /\ colors[i].percentage.num <= 100 * colors[i].percentage.den
    /\ (Clustered /\ colorCount >= 1) =>
          Len(colors) = Cardinality({ points[j].cluster : j \in 1 .. Len(points) })

C6_Witness ==
    /\ Clustered /\ colorCount >= 1
    /\ \E i \in 1 .. Len(centroids) : \A j \in 1 .. Len(points) : points[j].cluster # i - 1
    /\ Len(colors) >= 2

\* C7: the returned entries are in non-increasing order of count.
C7_SortedByCount ==
    status = "resolved" =>
        \A i \in 1 .. (Len(colors) - 1) : colors[i].count.num >= colors[i + 1].count.num

C7_Witness ==
    /\ Clustered
    /\ Len(colors) >= 2
    /\ colors[1].count.num > colors[2].count.num
    /\ Cardinality({ j \in 1 .. Len(points) : points[j].cluster = 0 })
         < Cardinality({ j \in 1 .. Len(points) : points[j].cluster = 1 })

\* The samples assigned to centroid i (0-based) and the sum of one of their
\* channels.
ClusterOf(i) == { j \in 1 .. Len(points) : points[j].cluster = i }

RECURSIVE SumOver(_, _)
SumOver(S, ch) ==
    IF S = { } THEN 0
    ELSE LET j == CHOOSE x \in S : TRUE
         IN points[j][ch] + SumOver(S \ { j }, ch)

\* Centroid i is the component-wise mean of the samples assigned to it.
IsMean(i) ==
    LET S == ClusterOf(i)
        c == centroids[i + 1]
    IN /\ c.r * Cardinality(S) = SumOver(S, "r") * c.n
       /\ c.g * Cardinality(S) = SumOver(S, "g") * c.n
       /\ c.b * Cardinality(S) = SumOver(S, "b") * c.n

\* C8: when kMeans returns, every centroid that holds a sample is the mean
\* of the samples assigned to it.
C8_CentroidIsMean ==
    (Returned /\ colorCount >= 1) =>
        \A i \in 0 .. (Len(centroids) - 1) : ClusterOf(i) # { } => IsMean(i)

\* Sample j is strictly closer to returned centroid i1 than to i2 (0-based).
Closer(j, i1, i2) ==
    LET p == points[j]
        a == centroids[i1 + 1]
        b == centroids[i2 + 1]
        da == (p.r * a.n - a.r) * (p.r * a.n - a.r) + (p.g * a.n - a.g) * (p.g * a.n - a.g)
              + (p.b * a.n - a.b) * (p.b * a.n - a.b)
        db == (p.r * b.n - b.r) * (p.r * b.n - b.r) + (p.g * b.n - b.g) * (p.g * b.n - b.g)
              + (p.b * b.n - b.b) * (p.b * b.n - b.b)
    IN da * b.n * b.n < db * a.n * a.n

\* The returned centroid nearest to sample j, the lowest index winning a tie.
NearestReturned(j) ==
    CHOOSE i \in 0 .. (Len(centroids) - 1) :
        /\ \A i2 \in 0 .. (Len(centroids) - 1) : ~Closer(j, i2, i)
        /\ \A i2 \in 0 .. (i - 1) : Closer(j, i, i2)

NearestCount(i) == Cardinality({ j \in 1 .. Len(points) : NearestReturned(j) = i })

AssignedCount(i) == Cardinality(ClusterOf(i))

Injections(n, m) ==
    { f \in [1 .. n -> 1 .. m] : \A x, y \in 1 .. n : x # y => f[x] # f[y] }

CountBy(which, i) == IF which = "nearest" THEN NearestCount(i) ELSE AssignedCount(i)

\* The palette reports, for each centroid, the count CountBy gives it: the
\* entries pair off with the centroids of positive count, colour and count
\* agreeing, and no centroid of positive count is left out.
Reports(which) ==
    \E f \in Injections(Len(colors), Len(centroids)) :
        /\ \A e \in 1 .. Len(colors) :
              /\ colors[e].color = rgbToHex(centroids[f[e]])
              /\ colors[e].count = [t |-> "number", num |-> CountBy(which, f[e] - 1), den |-> 1]
        /\ \A i \in 1 .. Len(centroids) :
              (\A e \in 1 .. Len(colors) : f[e] # i) => CountBy(which, i - 1) = 0

LastWeights == Distances(points, SubSeq(centroids, 1, Len(centroids) - 1))

SeedingLive == pc \in { "seed", "assign" } /\ iteration = 0 /\ Len(centroids) >= 2

\* Twice the cumulative weight up to sample j (0-based, inclusive).
Cumulative2(j) == 2 * SeqSum(SubSeq(LastWeights, 1, j + 1))

\* C10: a seeding step selects the first sample at which the cumulative
\* weight exceeds the drawn value, so with a positive total weight a sample
\* of weight 0 is never selected.
C10_WalkExceedsDraw ==
    (SeedingLive /\ SeqSum(LastWeights) > 0) =>
        /\ Cumulative2(selectedIndex) > randomValue
        /\ \A j \in 0 .. (selectedIndex - 1) : ~(Cumulative2(j) > randomValue)
        /\ LastWeights[selectedIndex + 1] > 0

\* ---------------------------------------------------------- scenario C

\* Opaque images of four pixels, three of one colour and one of another, in
\* every order, with the colour count the page requests.
ScenarioImages ==
    { d \in [1 .. 4 -> OpaquePixels] :
        \E i \in 1 .. 4 : \A j, l \in (1 .. 4) \ { i } : d[j] = d[l] /\ d[j] # d[i] }

InitScenarioC ==
    /\ data \in ScenarioImages
    /\ colorCount = DefaultColorCount
    /\ maxIterations \in 1 .. MaxIterCap
    /\ Start
    /\ OneRow
    /\ PageIdle

SpecScenarioC == InitScenarioC /\ [][Next]_vars

\* The eligible samples have exactly two colours, one three times as
\* frequent as the other.
ThreeToOne ==
    /\ Cardinality(DistinctColors) = 2
    /\ \E c \in DistinctColors :
         3 * Cardinality({ i \in EligiblePixels : << data[i].r, data[i].g, data[i].b >> = c })
           = Cardinality({ i \in EligiblePixels : << data[i].r, data[i].g, data[i].b >> # c })

\* C4: two colours in a 3:1 ratio and K = 6 give exactly two entries, 75%
\* then 25%, whatever the order of the samples and the draws of the seeding.
C4_ScenarioC ==
    (status = "resolved" /\ ThreeToOne /\ colorCount = 6) =>
        /\ Len(colors) = 2
        /\ colors[1].percentage.num = 75 * colors[1].percentage.den
        /\ colors[2].percentage.num = 25 * colors[2].percentage.den
        /\ 3 * colors[2].count.num = colors[1].count.num

\* ------------------------------------------------- C11: termination

\* A bound on the number of steps the call can still take: two per
\* iteration the cap still allows, one per seed that may still be pushed.
Remaining ==
    CASE pc = "done" -> 0
      [] pc = "format" -> 1
      [] pc = "update" -> 1 + 2 * (maxIterations - iteration)
      [] pc = "assign" -> 2 + 2 * (maxIterations - iteration)
      [] pc = "seed" -> 3 + 2 * maxIterations + (Len(data) - Len(centroids))
      [] pc = "kMeans" -> 4 + 2 * maxIterations + Len(data)
      [] OTHER -> 5 + 2 * maxIterations + Len(data)

\* The loop of kMeans has been left because the cap was used up.
CapExhausted == stop = "cap"

\* The loop of kMeans has been left by the break.
Converged == stop = "converged"

\* Inside kMeans the step the position calls for can be taken: the guard
\* of SeedFirst, SeedNext or Assign holds (Update has none).
CanStep ==
    /\ pc = "kMeans" => Len(points) > 0
    /\ pc = "seed" =>
        /\ MoreSeeds(centroids, k, points)
        /\ Draws(Distances(points, centroids)) # { }
    /\ pc = "assign" => Iterating(iteration, maxIterations)

\* What holds in every state of a call about the loop of kMeans.
LoopBounded ==
    /\ assignSteps <= maxIterations
    /\ iteration <= maxIterations
    /\ Converged => assignSteps = iteration + 1
    /\ CapExhausted =>
        /\ iteration = maxIterations
        /\ assignSteps = maxIterations
        /\ error = "none"
        /\ pc = "done" => status = "resolved"
    /\ CanStep

\* C11: kMeans always terminates.  It runs at most maxIterations
\* assignment steps; when an assignment step changes no cluster the loop is
\* left without the update step of that iteration (one more assignment
\* step than updates); when the cap is used up the centroids are returned
\* and the call resolves without an error.  No state inside kMeans is
\* stuck, and every step strictly lowers the bound on the steps that
\* remain, so no run goes on for ever.
C11_Terminates == [] LoopBounded /\ [][Remaining' < Remaining]_vars

\* The cap was used up after two iterations, and the call resolved.
C11_Witness ==
    /\ CapExhausted
    /\ assignSteps = 2
    /\ pc = "done"
    /\ status = "resolved"

\* ------------------------------------------------------ downscaling

\* The longest side of the canvas the image is drawn on.
maxDimension == 200

\* The side lengths of the images that are tried.
Sides == { 1, 2, 100, 145, 199, 200, 201, 232, 289, 300, 400, 1000 }

\* A double has 53 significant bits.  The model keeps them as five digits,
\* most significant first: a leading digit (1 for a normalised quotient)
\* and four digits of 13 bits each, with a binary exponent beside them, so
\* that no intermediate number outgrows 32 bits.

\* The base of a digit: 2^13.
Limb == 8192

\* The number of digits below the leading one: 4 * 13 = 52 bits.
Limbs == 4

RECURSIVE Pow2(_)
Pow2(n) == IF n = 0 THEN 1 ELSE 2 * Pow2(n - 1)

\* The number of bits of a positive integer.
RECURSIVE BitLength(_)
BitLength(n) == IF n = 0 THEN 0 ELSE 1 + BitLength(n \div 2)

\* How often a must be doubled to reach b.
RECURSIVE Doublings(_, _)
Doublings(a, b) == IF a >= b THEN 0 ELSE 1 + Doublings(2 * a, b)

\* a doubled until it reaches b.
RECURSIVE Doubled(_, _)
Doubled(a, b) == IF a >= b THEN a ELSE Doubled(2 * a, b)

\* n more digits of the quotient of a long division by b with remainder r.
RECURSIVE LongDivision(_, _, _, _)
LongDivision(digits, r, b, n) ==
    IF n = 0 THEN [digits |-> digits, r |-> r]
    ELSE LongDivision(Append(digits, (r * Limb) \div b), (r * Limb) % b, b, n - 1)

\* unit added to the digit at position i, the carry running towards the
\* leading digit, which takes whatever reaches it.
RECURSIVE Carried(_, _, _)
Carried(digits, i, unit) ==
    IF i = 1 \/ digits[i] + unit < Limb
    THEN [digits EXCEPT ![i] = @ + unit]
    ELSE Carried([digits EXCEPT ![i] = @ + unit - Limb], i - 1, 1)

\* The double a / b for integers 0 < a < b, rounded to nearest, ties to
\* even: its value is that of the digits over 2^(52 + t).
Quotient(a, b) ==
    LET d == LongDivision(<< 1 >>, Doubled(a, b) - b, b, Limbs)
        up == \/ 2 * d.r > b
              \/ 2 * d.r = b /\ d.digits[Limbs + 1] % 2 = 1
    IN [digits |-> IF up THEN Carried(d.digits, Limbs + 1, 1) ELSE d.digits,
        t |-> Doublings(a, b)]

\* The exact product of the integer h and the digits, from the digit at
\* position i upwards; the leading digit is left as large as it gets.
RECURSIVE Times(_, _, _, _)
Times(h, digits, i, carry) ==
    IF i = 1 THEN << h * digits[1] + carry >>
    ELSE Append(Times(h, digits, i - 1, (h * digits[i] + carry) \div Limb),
                (h * digits[i] + carry) % Limb)

\* A product rounded to the 53 significant bits of a double, to nearest,
\* ties to even: the bits the leading digit has beyond the first are
\* dropped from the last digit.
Rounded(digits) ==
    LET unit == Pow2(BitLength(digits[1]) - 1)
        low == digits[Limbs + 1]
        dropped == low % unit
        up == \/ 2 * dropped > unit
              \/ 2 * dropped = unit /\ (low \div unit) % 2 = 1
        kept == [digits EXCEPT ![Limbs + 1] = low - dropped]
    IN IF up THEN Carried(kept, Limbs + 1, unit) ELSE kept

\* Math.floor(x * (maxDimension / larger)) as the doubles compute it: the
\* quotient is rounded, the product is rounded, the integer part is taken.
FloorScaled(x, larger) ==
    LET q == Quotient(maxDimension, larger)
        p == Rounded(Times(x, q.digits, Limbs + 1, 0))
    IN p[1] \div Pow2(q.t)

\* The width and height of the canvas for an image of w by h.
Downscaled(w, h) ==
    IF w > h /\ w > maxDimension
    THEN [width |-> maxDimension, height |-> FloorScaled(h, w)]
    ELSE IF h > maxDimension
         THEN [width |-> FloorScaled(w, h), height |-> maxDimension]
         ELSE [width |-> w, height |-> h]

\* An image of some size has been handed to extractColors.
InitDownscale ==
    /\ imgWidth \in Sides
    /\ imgHeight \in Sides
    /\ width = imgWidth
    /\ height = imgHeight
    /\ data = << >>
    /\ colorCount = DefaultColorCount
    /\ maxIterations = 1
    /\ Start
    /\ PageIdle

\* img.onload: the size of the canvas is worked out.
Resize ==
    /\ pc = "loading"
    /\ width' = Downscaled(imgWidth, imgHeight).width
    /\ height' = Downscaled(imgWidth, imgHeight).height
    /\ pc' = "canvas"
    /\ UNCHANGED << data, colorCount, maxIterations, points, k, centroids, iteration,
                    randomValue, selectedIndex, kMeansCalls, stop, status, error,
                    colors, assignSteps >>
    /\ UNCHANGED << imgWidth, imgHeight, homeVars >>

\* createCanvas and getContext('2d'): without a context the call rejects.
CreateCanvas ==
    /\ pc = "canvas"
    /\ \E ctx \in BOOLEAN :
        IF ~ctx
        THEN pc' = "done" /\ status' = "rejected" /\ error' = "context"
        ELSE pc' = "draw" /\ UNCHANGED << status, error >>
    /\ UNCHANGED << data, colorCount, maxIterations, points, k, centroids, iteration,
                    randomValue, selectedIndex, kMeansCalls, stop, colors, assignSteps >>
    /\ UNCHANGED << scaleVars, homeVars >>

\* drawImage, then getImageData(0, 0, width, height), which throws an
\* IndexSizeError when the width or the height is zero; the catch rejects.
GetImageData ==
    /\ pc = "draw"
    /\ IF width = 0 \/ height = 0
       THEN pc' = "done" /\ status' = "rejected" /\ error' = "IndexSizeError"
       ELSE pc' = "sample" /\ UNCHANGED << status, error >>
    /\ UNCHANGED << data, colorCount, maxIterations, points, k, centroids, iteration,
                    randomValue, selectedIndex, kMeansCalls, stop, colors, assignSteps >>
    /\ UNCHANGED << scaleVars, homeVars >>

NextDownscale == Resize \/ CreateCanvas \/ GetImageData

SpecDownscale == InitDownscale /\ [][NextDownscale]_vars

\* ------------------------------------------------ C12: the canvas size

\* The size of the canvas has been worked out.
Resized == pc # "loading"

\* The longer side of the image.
Larger == IF imgWidth > imgHeight THEN imgWidth ELSE imgHeight

\* x * maxDimension / Larger, rounded down.
Proportional(x) == (x * maxDimension) \div Larger

\* C12: when the longer side of the image exceeds 200 it becomes exactly
\* 200 and the other side becomes its value times 200 divided by the longer
\* side, rounded down (a square image becomes 200 x 200); an image whose
\* longer side is at most 200 keeps its size; afterwards neither side
\* exceeds 200.
C12_Downscale ==
    Resized =>
        /\ Larger > maxDimension =>
            /\ width = IF imgWidth >= imgHeight THEN maxDimension
                       ELSE Proportional(imgWidth)
            /\ height = IF imgHeight >= imgWidth THEN maxDimension
                        ELSE Proportional(imgHeight)
        /\ Larger <= maxDimension => width = imgWidth /\ height = imgHeight
        /\ width <= maxDimension
        /\ height <= maxDimension

\* ---------------------------------------- C13: no zero-sized canvas

\* C13: for every image of at least 1 x 1 the canvas is at least 1 x 1,
\* getImageData is never called on a zero-sized canvas, and the call is
\* not rejected for the size of the image.
C13_NeverZeroSized ==
    Resized =>
        /\ width >= 1
        /\ height >= 1
        /\ error # "IndexSizeError"

\* --------------------------------------------------- C14: the sampler

\* The sampling loop has run over the buffer.
Sampled == pc # "loading" /\ error \notin { "load", "context" }

\* The index in the buffer of the i-th pixel whose alpha is 128 or more.
NthEligible(i) ==
    CHOOSE j \in EligiblePixels :
        Cardinality({ m \in EligiblePixels : m < j }) = i - 1

\* C14: the sampler yields exactly one sample for every pixel whose alpha
\* is 128 or more, carrying that pixel's red, green and blue, in the order
\* of the buffer (row-major), and none for a pixel whose alpha is below
\* 128; the number of samples is the number of pixels with alpha >= 128.
C14_OneSamplePerOpaquePixel ==
    Sampled =>
        /\ Len(points) = EligibleCount
        /\ \A i \in 1 .. Len(points) :
            /\ points[i].r = data[NthEligible(i)].r
            /\ points[i].g = data[NthEligible(i)].g
            /\ points[i].b = data[NthEligible(i)].b

\* A pixel below the threshold lies between two pixels of different
\* colours that are sampled.
C14_Witness ==
    /\ Sampled
    /\ Len(data) = 3
    /\ data[2].a < 128
    /\ data[1].a >= 128
    /\ data[3].a >= 128
    /\ << data[1].g, data[1].b >> # << data[3].g, data[3].b >>
    /\ Len(points) = 2
    /\ points[2].g # points[2].b

\* ---------------------------------------------------- the Home page

\* The largest number of uploads whose callbacks are still to run.
MaxInFlight == 2

\* The size limit of an upload, in megabytes.
MaxMegabytes == 10

\* const validTypes = ['image/jpeg', 'image/png', 'image/gif', 'image/webp']
validTypes == { "image/jpeg", "image/png", "image/gif", "image/webp" }

\* The files the user may pick: two images of a single pixel each, an
\* image that cannot be decoded, a file of another type, an image that is
\* too large.  The size is in megabytes.
Files ==
    { [name |-> "black.png", type |-> "image/png", size |-> 1, decodes |-> TRUE,
       data |-> << [r |-> 0, g |-> 0, b |-> 0, a |-> 128] >>],
      [name |-> "olive.jpg", type |-> "image/jpeg", size |-> 1, decodes |-> TRUE,
       data |-> << [r |-> 2, g |-> 2, b |-> 0, a |-> 128] >>],
      [name |-> "torn.webp", type |-> "image/webp", size |-> 1, decodes |-> FALSE,
       data |-> << >>],
      [name |-> "notes.txt", type |-> "text/plain", size |-> 1, decodes |-> FALSE,
       data |-> << >>],
      [name |-> "huge.gif", type |-> "image/gif", size |-> 11, decodes |-> TRUE,
       data |-> << [r |-> 1, g |-> 0, b |-> 0, a |-> 128] >>] }

\* reader.readAsDataURL(file): the string e.target.result.
DataUrl(file) == "data:" \o file.type \o ";base64," \o file.name

\* What extractColors(imageData, 6) resolves with for a decodable image of
\* one pixel: a single centroid, the pixel itself, holds the one sample.
ExtractedColors(file) ==
    LET pts == Sample(file.data)
    IN IF Len(pts) = 0 THEN Fallback
       ELSE Palette(Assigned(pts, << Seed(pts[1]) >>), << Seed(pts[1]) >>,
                    EffectiveK(DefaultColorCount, pts))

\* s without its i-th element.
Remove(s, i) == SubSeq(s, 1, i - 1) \o SubSeq(s, i + 1, Len(s))

\* No call of extractColors is modelled step by step on the page.
NoCall ==
    /\ data = << >>
    /\ colorCount = DefaultColorCount
    /\ maxIterations = 1
    /\ Start
    /\ OneRow

InitHome == NoCall /\ PageIdle

\* handleImageUpload(file): the two validations, then the three setters
\* and a FileReader started on the file.
HandleImageUpload(file) ==
    IF file.type \notin validTypes
    THEN pageError' = "type" /\ UNCHANGED << image, pageColors, isProcessing, uploads >>
    ELSE IF file.size > MaxMegabytes
         THEN pageError' = "size" /\ UNCHANGED << image, pageColors, isProcessing, uploads >>
         ELSE /\ pageError' = Null
              /\ isProcessing' = TRUE
              /\ pageColors' = << >>
              /\ uploads' = Append(uploads, [file |-> file, at |-> "reading"])
              /\ image' = image

\* handleFileSelect: the input is rendered while image is null and is
\* disabled while isProcessing.
FileSelect ==
    /\ image = Null
    /\ ~isProcessing
    /\ Len(uploads) < MaxInFlight
    /\ \E file \in Files : HandleImageUpload(file)
    /\ UNCHANGED << callVars, scaleVars >>

\* handleDrop: the drop zone is rendered while image is null; it does not
\* look at isProcessing.
Drop ==
    /\ image = Null
    /\ Len(uploads) < MaxInFlight
    /\ \E file \in Files : HandleImageUpload(file)
    /\ UNCHANGED << callVars, scaleVars >>

\* reader.onload up to the await: setImage, then extractColors is called.
ReaderOnLoad ==
    /\ \E i \in 1 .. Len(uploads) :
        /\ uploads[i].at = "reading"
        /\ image' = DataUrl(uploads[i].file)
        /\ uploads' = [uploads EXCEPT ![i].at = "extracting"]
    /\ UNCHANGED << pageColors, isProcessing, pageError >>
    /\ UNCHANGED << callVars, scaleVars >>

\* reader.onerror.
ReaderOnError ==
    /\ \E i \in 1 .. Len(uploads) :
        /\ uploads[i].at = "reading"
        /\ uploads' = Remove(uploads, i)
    /\ pageError' = "read"
    /\ isProcessing' = FALSE
    /\ UNCHANGED << image, pageColors >>
    /\ UNCHANGED << callVars, scaleVars >>

\* The rest of reader.onload once extractColors has settled: setColors on
\* a result, setError on a rejection, setIsProcessing(false) in both cases.
ExtractSettled ==
    /\ \E i \in 1 .. Len(uploads) :
        /\ uploads[i].at = "extracting"
        /\ uploads' = Remove(uploads, i)
        /\ IF uploads[i].file.decodes
           THEN pageColors' = ExtractedColors(uploads[i].file) /\ pageError' = pageError
           ELSE pageError' = "process" /\ pageColors' = pageColors
    /\ isProcessing' = FALSE
    /\ image' = image
    /\ UNCHANGED << callVars, scaleVars >>

\* The reset button, rendered while image is not null.
ResetClick ==
    /\ image # Null
    /\ image' = Null
    /\ pageColors' = << >>
    /\ UNCHANGED << isProcessing, pageError, uploads >>
    /\ UNCHANGED << callVars, scaleVars >>

NextHome ==
    FileSelect \/ Drop \/ ReaderOnLoad \/ ReaderOnError \/ ExtractSettled \/ ResetClick

SpecHome == InitHome /\ [][NextHome]_vars

\* ------------------------------------- C15: colors belong to the image

\* C15: under every interleaving of file selection, drag-and-drop and the
\* reset button with the callbacks of the readers and of extractColors,
\* whenever colors is non-empty it is the palette of the image that is in
\* image; a result is never stored while image is null or holds another
\* upload.
C15_ColorsOfCurrentImage ==
    pageColors # << >> =>
        \E file \in Files :
            /\ image = DataUrl(file)
            /\ pageColors = ExtractedColors(file)

=============================================================================
